---------------------------- MODULE Spec2Model ----------------------------
(***************************************************************************)
(* Model of gazette/replicate_client.go: the process-wide registry of idle *)
(* pools (idlePools, idlePoolsMu), NewReplicateClient, and the transaction *)
(* run by Replicate: takeConn, the REPLICATE handshake of start, the write *)
(* handle (Write, Commit) and putConn.                                     *)
(*                                                                         *)
(* A goroutine's step is one action.  Steps are cut at the operations that *)
(* touch shared state or block: the mutex, the pool channel, a blocking    *)
(* read of a response, the send on op.Result.  The peer and the network    *)
(* are the environment: the outcome of a dial, a flush or a read is drawn  *)
(* from the small sets below.                                              *)
(***************************************************************************)
EXTENDS Integers, Sequences, FiniteSets, TLC

(* ------------------------------ constants ------------------------------ *)

\* replicate_client.go:30
ReplicateClientIdlePoolSize == 6

\* http.StatusContinue (line 106) and http.StatusNoContent (line 187).
StatusContinue == 100
StatusNoContent == 204
\* Two more statuses a peer answers with: 409 Conflict, 500 Internal Server
\* Error.
StatusConflict == StatusContinue + 309
StatusInternalServerError == StatusContinue + 400

(* ------------------------------- bounds -------------------------------- *)

\* Calls of NewReplicateClient; call k is made with endpoint k.
NumClients == 3
\* Operations passed to Replicate.
NumTx == 2
\* Calls of Write on one write handle.
MaxWrites == 1
\* Calls of Write on one write handle after Commit was called on it.
MaxLateWrites == 1
\* Calls of Commit on one write handle.
MaxCommits == 2
\* Operations whose caller goes on to use the write handle after its Commit
\* has returned: operations 1..NumLate.
NumLate == 1

ClientIds == 1..NumClients
TxIds == 1..NumTx
LateTxIds == 1..NumLate
Endpoints == ClientIds

\* ep.BaseURL: endpoints 1, 3, ... share one base URL, endpoints 2, 4, ...
\* another.
BaseURL(e) == e % 2
BaseURLs == {BaseURL(e) : e \in Endpoints}

NoPool == 0
NoConn == 0
NoClient == 0

(* ------------------------- strconv.ParseInt --------------------------- *)

\* An int64 is kept as a sign and its magnitude in base-16 digits, most
\* significant first, without leading zeros (the model checker's integers
\* are narrower than 64 bits).
Zero == [neg |-> FALSE, mag |-> <<>>]
\* 1<<63 - 1 and 1<<63
MaxInt64Mag == <<7, 15, 15, 15, 15, 15, 15, 15, 15, 15, 15, 15, 15, 15, 15, 15>>
CutoffMag == <<8, 0, 0, 0, 0, 0, 0, 0, 0, 0, 0, 0, 0, 0, 0, 0>>
MaxUint64Mag == <<15, 15, 15, 15, 15, 15, 15, 15, 15, 15, 15, 15, 15, 15, 15, 15>>

HexChars == <<"0", "1", "2", "3", "4", "5", "6", "7", "8", "9",
              "a", "b", "c", "d", "e", "f">>
HexUpper == <<"0", "1", "2", "3", "4", "5", "6", "7", "8", "9",
              "A", "B", "C", "D", "E", "F">>

\* The value of one character as a base-16 digit, or 16 when it is none.
DigitVal(ch) ==
    IF \E i \in 1..16 : HexChars[i] = ch
    THEN (CHOOSE i \in 1..16 : HexChars[i] = ch) - 1
    ELSE IF \E i \in 1..16 : HexUpper[i] = ch
    THEN (CHOOSE i \in 1..16 : HexUpper[i] = ch) - 1
    ELSE 16

RECURSIVE StripZeros(_)
StripZeros(m) ==
    IF m # <<>> /\ Head(m) = 0 THEN StripZeros(Tail(m)) ELSE m

\* a < b for two magnitudes without leading zeros.
RECURSIVE MagLess(_, _)
MagLess(a, b) ==
    IF Len(a) # Len(b) THEN Len(a) < Len(b)
    ELSE IF a = <<>> THEN FALSE
    ELSE IF Head(a) # Head(b) THEN Head(a) < Head(b)
    ELSE MagLess(Tail(a), Tail(b))

\* strconv.ParseUint(s, 16, 64), from character i on, with n accumulated:
\* a character that is no digit is a syntax error with value 0, a value
\* beyond 64 bits a range error with value 1<<64 - 1.
RECURSIVE ParseUintFrom(_, _, _)
ParseUintFrom(s, i, n) ==
    IF i > Len(s) THEN [n |-> n, err |-> "nil"]
    ELSE IF DigitVal(s[i]) >= 16 THEN [n |-> <<>>, err |-> "syntax"]
    ELSE IF Len(n) >= 16 THEN [n |-> MaxUint64Mag, err |-> "range"]
    ELSE ParseUintFrom(s, i + 1, StripZeros(Append(n, DigitVal(s[i]))))

ParseUint(s) ==
    IF s = <<>> THEN [n |-> <<>>, err |-> "syntax"]
    ELSE ParseUintFrom(s, 1, <<>>)

\* strconv.ParseInt(s, 16, 64): an optional sign, then ParseUint.  A syntax
\* error gives 0; a value that does not fit gives the largest magnitude of
\* its sign together with a range error.
ParseInt(s) ==
    IF s = <<>> THEN [i |-> Zero, err |-> "syntax"]
    ELSE LET neg == s[1] = "-"
             rest == IF s[1] = "+" \/ s[1] = "-" THEN Tail(s) ELSE s
             un == ParseUint(rest)
         IN IF un.err = "syntax" THEN [i |-> Zero, err |-> "syntax"]
            ELSE IF ~neg /\ ~MagLess(un.n, CutoffMag)
            THEN [i |-> [neg |-> FALSE, mag |-> MaxInt64Mag], err |-> "range"]
            ELSE IF neg /\ MagLess(CutoffMag, un.n)
            THEN [i |-> [neg |-> TRUE, mag |-> CutoffMag], err |-> "range"]
            ELSE [i |-> [neg |-> neg /\ un.n # <<>>, mag |-> un.n],
                  err |-> "nil"]

(* ------------------------------- errors -------------------------------- *)

NilError == [kind |-> "nil", msg |-> <<>>]
\* An error of ResolveURL, net.Dial, DumpRequest, Flush or ReadResponse.
IOError(kind) == [kind |-> kind, msg |-> <<>>]
\* errors.New(body.String())
NewError(text) == [kind |-> "errorString", msg |-> text]

\* journal.ReplicateResult{Writer, Error, ErrorWriteHead}; Writer is the
\* transaction, 0 for nil.
ReplicateResult(w, e, h) == [Writer |-> w, Error |-> e, ErrorWriteHead |-> h]
NoResult == ReplicateResult(0, NilError, Zero)

(* ----------------------------- environment ----------------------------- *)

\* Values of the X-Write-Head header; <<>> is what Header.Get gives for an
\* absent header.
WriteHeadValues ==
    { <<>>,
      <<"2", "a">>,
      <<"-", "2", "A">>,
      <<"2", "g">>,
      <<"8", "0", "0", "0", "0", "0", "0", "0",
        "0", "0", "0", "0", "0", "0", "0", "0">> }

\* Response bodies, as sequences of pieces of text.
Bodies == { <<>>, <<"quota exceeded">> }

\* What http.ReadResponse and the drain of the body give: headOk is FALSE
\* for an error of ReadResponse (transport, timeout, parse); got is the
\* number of pieces of the body that io.Copy reads before it ends, fewer
\* than the body holds when the read fails or times out.
Response(ok, st, cl, wh, b, g) ==
    [headOk |-> ok, status |-> st, close |-> cl, writeHead |-> wh,
     body |-> b, got |-> g]
ReadFailure == Response(FALSE, 0, FALSE, <<>>, <<>>, 0)
NoResponse == ReadFailure

\* A body and how much of it the drain reads.
Drains == UNION { { <<b, g>> : g \in 0..Len(b) } : b \in Bodies }

HandshakeOutcomes ==
    { ReadFailure, Response(TRUE, StatusContinue, FALSE, <<>>, <<>>, 0) }
    \cup { Response(TRUE, StatusConflict, cl, <<>>, d[1], d[2]) :
             cl \in BOOLEAN, d \in Drains }
    \cup { Response(TRUE, StatusConflict, FALSE, wh, <<>>, 0) :
             wh \in WriteHeadValues }
    \cup { Response(TRUE, StatusNoContent, FALSE, <<>>, <<>>, 0) }

CommitOutcomes ==
    { ReadFailure }
    \cup { Response(TRUE, StatusNoContent, cl, <<>>, <<>>, 0) :
             cl \in BOOLEAN }
    \cup { Response(TRUE, StatusInternalServerError, cl, <<>>, d[1], d[2]) :
             cl \in BOOLEAN, d \in Drains }

\* io.Copy(&body, resp.Body): what has been read when the copy ends.
Drained(r) == SubSeq(r.body, 1, r.got)
DrainFailed(r) == r.got < Len(r.body)

(* -------------------------------- state -------------------------------- *)

VARIABLES
    idlePools,    \* the registry: BaseURL -> pool (NoPool: no entry)
    idlePoolsMu,  \* the client call holding the mutex, NoClient when free
    chans,        \* the pools made: chans[p] is the channel's queue
    client,       \* each call of NewReplicateClient and the client it returns
    conns,        \* the connections dialed
    tx,           \* each operation's transaction
    Result,       \* op.Result: what has been sent on it
    invalidated   \* calls of InvalidateResolution per endpoint

vars == <<idlePools, idlePoolsMu, chans, client, conns, tx, Result, invalidated>>

\* Lines 150-156: a connection as the dial returns it.  open: the transport
\* is open; no line of the source closes it.  silent: the peer sends
\* nothing in answer to what was last flushed.
NewConn(host) ==
    [host |-> host, deadline |-> FALSE, werr |-> FALSE, terr |-> FALSE,
     putBy |-> NoClient, open |-> TRUE, silent |-> FALSE]

NewTx ==
    [pc |-> "new", client |-> NoClient, conn |-> NoConn, fromPool |-> FALSE,
     take |-> "ok", writeErr |-> FALSE,
     result |-> NoResult, resp |-> NoResponse, wire |-> <<>>,
     put |-> "none", writes |-> 0, commitErr |-> NilError,
     commits |-> 0, lateWrites |-> 0]

\* The state when the process starts: init() has made the empty registry
\* (lines 206-208).
RegistryInit ==
    /\ idlePools = [u \in BaseURLs |-> NoPool]
    /\ idlePoolsMu = NoClient
    /\ chans = <<>>
    /\ client = [k \in ClientIds |-> [pc |-> "new", idlePool |-> NoPool]]
    /\ conns = <<>>
    /\ tx = [t \in TxIds |-> NewTx]
    /\ Result = [t \in TxIds |-> <<>>]
    /\ invalidated = [e \in Endpoints |-> 0]

\* The pool of each base URL once the calls of NewReplicateClient have
\* returned, client 1's made first.
PoolOfURL(u) == IF u = BaseURL(1) THEN 1 ELSE 2

\* The state once every call of NewReplicateClient has returned and no
\* operation has been passed to Replicate yet.
ColdInit ==
    /\ idlePools = [u \in BaseURLs |-> PoolOfURL(u)]
    /\ idlePoolsMu = NoClient
    /\ chans = [p \in 1..Cardinality(BaseURLs) |-> <<>>]
    /\ client = [k \in ClientIds |->
                   [pc |-> "ready", idlePool |-> PoolOfURL(BaseURL(k))]]
    /\ conns = <<>>
    /\ tx = [t \in TxIds |-> NewTx]
    /\ Result = [t \in TxIds |-> <<>>]
    /\ invalidated = [e \in Endpoints |-> 0]

\* A state the program is in after seven concurrent operations on client 1
\* found the pool empty and dialed, six of them committed (their
\* connections fill the pool) and the seventh, transaction 1, still holds
\* its write handle.
WarmInit ==
    /\ idlePools = [u \in BaseURLs |-> PoolOfURL(u)]
    /\ idlePoolsMu = NoClient
    /\ chans = [p \in 1..Cardinality(BaseURLs) |->
                  IF p = 1 THEN [i \in 1..ReplicateClientIdlePoolSize |-> i]
                  ELSE <<>>]
    /\ client = [k \in ClientIds |->
                   [pc |-> "ready", idlePool |-> PoolOfURL(BaseURL(k))]]
    /\ conns = [i \in 1..(ReplicateClientIdlePoolSize + 1) |->
                  [NewConn(BaseURL(1)) EXCEPT
                     !.putBy = IF i <= ReplicateClientIdlePoolSize
                               THEN 1 ELSE NoClient]]
    /\ tx = [t \in TxIds |->
               IF t = 1
               THEN [NewTx EXCEPT
                       !.pc = "streaming", !.client = 1,
                       !.conn = ReplicateClientIdlePoolSize + 1,
                       !.result = ReplicateResult(1, NilError, Zero),
                       !.resp = Response(TRUE, StatusContinue, FALSE,
                                         <<>>, <<>>, 0),
                       !.wire = <<"WriteHead", "Flush", "Read100">>]
               ELSE NewTx]
    /\ Result = [t \in TxIds |->
                   IF t = 1 THEN << ReplicateResult(1, NilError, Zero) >>
                   ELSE <<>>]
    /\ invalidated = [e \in Endpoints |-> 0]

Init == ColdInit \/ WarmInit

(* ------------------------- NewReplicateClient -------------------------- *)

\* A Lock that does not wait.
MutexIgnored == TRUE

\* idlePoolsMu.Lock() waits until the mutex is free.
MutexFree == idlePoolsMu = NoClient

\* Lines 53-55: take the mutex and look the base URL up:
\* idlePool, ok := idlePools[ep.BaseURL].
NewClientLock(k) ==
    /\ client[k].pc = "new"
    /\ MutexFree
    /\ idlePoolsMu' = k
    /\ LET p == idlePools[BaseURL(k)]
       IN client' = [client EXCEPT
                       ![k].idlePool = p,
                       ![k].pc = IF p # NoPool THEN "unlock" ELSE "make"]
    /\ UNCHANGED <<idlePools, chans, conns, tx, Result, invalidated>>

\* Lines 56-57: make the channel and enter it in the registry.
NewClientMake(k) ==
    /\ client[k].pc = "make"
    /\ chans' = Append(chans, <<>>)
    /\ idlePools' = [idlePools EXCEPT ![BaseURL(k)] = Len(chans) + 1]
    /\ client' = [client EXCEPT ![k].idlePool = Len(chans) + 1,
                                ![k].pc = "unlock"]
    /\ UNCHANGED <<idlePoolsMu, conns, tx, Result, invalidated>>

\* Lines 59-64: unlock and return the client.
NewClientUnlock(k) ==
    /\ client[k].pc = "unlock"
    /\ idlePoolsMu' = NoClient
    /\ client' = [client EXCEPT ![k].pc = "ready"]
    /\ UNCHANGED <<idlePools, chans, conns, tx, Result, invalidated>>

(* ------------------------------ the pool ------------------------------- *)

\* The pool of transaction t's client: t.client.idlePool.
PoolOf(t) == client[tx[t].client].idlePool

\* A receive that leaves the connection in the queue.
QueueAfterPeek(q) == q

\* Lines 140-142: a receive takes the queue's first connection out of it.
QueueAfterTake(q) == Tail(q)

\* A send that queues the connection whatever the queue holds.
QueueAfterPutAlways(q, c) == Append(q, c)

\* Lines 161-164: a send that does not block: the connection joins the
\* queue when the channel has room and is dropped otherwise.
QueueAfterPut(q, c) ==
    IF Len(q) < ReplicateClientIdlePoolSize THEN Append(q, c) ELSE q

\* putConn's effect on the pools, on the connection (line 160 clears the
\* read deadline) and on the transaction's record of what became of it.
PutChans(t, c) == [chans EXCEPT ![PoolOf(t)] = QueueAfterPut(@, c)]
PutPooled(t, c) == Len(chans[PoolOf(t)]) < Len(PutChans(t, c)[PoolOf(t)])
\* A putConn that leaves the read deadline as it is.
PutConnRecKeepsDeadline(t, c, rec) ==
    [rec EXCEPT !.putBy = IF PutPooled(t, c) THEN tx[t].client ELSE @]
PutConnRec(t, c, rec) ==
    [rec EXCEPT !.deadline = FALSE,
                !.putBy = IF PutPooled(t, c) THEN tx[t].client ELSE @]
PutOutcome(t, c) == IF PutPooled(t, c) THEN "pooled" ELSE "dropped"

(* --------------------------- Replicate, start -------------------------- *)

\* Lines 67-70: Replicate starts the transaction's goroutine for a client
\* that NewReplicateClient has returned.
Replicate(t, k) ==
    /\ tx[t].pc = "new"
    /\ client[k].pc = "ready"
    /\ tx' = [tx EXCEPT ![t].pc = "take", ![t].client = k]
    /\ UNCHANGED <<idlePools, idlePoolsMu, chans, client, conns, Result, invalidated>>

\* The transaction goes on to send r on op.Result.
ToSend(t, r) == [tx[t] EXCEPT !.pc = "send", !.result = r]

\* takeConn, lines 140-142: the pool holds a connection.
TakeFromPool(t) ==
    /\ tx[t].pc = "take"
    /\ chans[PoolOf(t)] # <<>>
    /\ tx' = [tx EXCEPT ![t].pc = "request",
                        ![t].conn = Head(chans[PoolOf(t)]),
                        ![t].fromPool = TRUE]
    /\ chans' = [chans EXCEPT ![PoolOf(t)] = QueueAfterTake(@)]
    /\ UNCHANGED <<idlePools, idlePoolsMu, client, conns, Result, invalidated>>

\* A takeConn that never invalidates the resolution.
InvalidationsNever(outcome) == 0

\* A takeConn that invalidates the resolution on every failure.
InvalidationsOnFailure(outcome) == IF outcome # "ok" THEN 1 ELSE 0

\* Calls of InvalidateResolution after takeConn's outcome (lines 146-154):
\* one when the dial fails, none when ResolveURL fails.
InvalidationsOn(outcome) == IF outcome = "dial" THEN 1 ELSE 0

\* takeConn, lines 143-156, and lines 74-77 of start: the pool is empty;
\* ResolveURL fails, the dial fails, or a new connection is made.
TakeDial(t) ==
    /\ tx[t].pc = "take"
    /\ chans[PoolOf(t)] = <<>>
    /\ \E outcome \in {"resolve", "dial", "ok"} :
         /\ invalidated' = [invalidated EXCEPT
                              ![tx[t].client] = @ + InvalidationsOn(outcome)]
         /\ IF outcome = "ok"
            THEN /\ conns' = Append(conns, NewConn(BaseURL(tx[t].client)))
                 /\ tx' = [tx EXCEPT ![t].pc = "request",
                                     ![t].conn = Len(conns) + 1]
            ELSE /\ conns' = conns
                 /\ tx' = [tx EXCEPT ![t] =
                             [ToSend(t, ReplicateResult(0, IOError(outcome), Zero))
                                EXCEPT !.take = outcome]]
    /\ UNCHANGED <<idlePools, idlePoolsMu, chans, client, Result>>

\* A buffered writer that forgets its error.
FlushOutcomesForgetful(c) == BOOLEAN

\* bufio's Flush: it fails when the writer holds an earlier error, and may
\* fail on the network.
FlushOutcomes(c) == IF conns[c].werr THEN {FALSE} ELSE BOOLEAN

FlushEvent(ok) == IF ok THEN "Flush" ELSE "FlushFailed"

\* A connection after a flush, and after a read that failed.
AfterFlush(c, ok) ==
    [conns[c] EXCEPT !.werr = ~ok, !.terr = @ \/ ~ok]

\* A wait for a response without a read deadline.
NoReadDeadline(ok) == FALSE

\* Lines 101 and 181: after a flush that succeeded the read deadline is set,
\* a minute ahead.
ReadDeadline(ok) == ok

\* Whether the peer stays silent after a flush: it may when it was sent
\* something.
Quiet(ok) == IF ok THEN BOOLEAN ELSE {FALSE}

\* The connection after the flush of a request head or of a trailer.
Awaiting(c, ok, quiet) ==
    [AfterFlush(c, ok) EXCEPT !.deadline = ReadDeadline(ok), !.silent = quiet]

\* What http.ReadResponse can return (lines 102, 182): one of the peer's
\* answers or a failure of the connection; from a silent peer only the
\* failure that the read deadline brings, and nothing, the read blocking,
\* when no deadline is set.
ReadOutcomes(c, answers) ==
    IF ~conns[c].silent THEN answers
    ELSE IF conns[c].deadline THEN {ReadFailure}
    ELSE {}

\* Lines 78-101: build and dump the request, write and flush it, and set the
\* read deadline for the 100-continue wait.
SendRequest(t) ==
    /\ tx[t].pc = "request"
    /\ LET c == tx[t].conn
       IN \/ \* DumpRequest fails (lines 89-92)
             /\ tx' = [tx EXCEPT ![t] =
                         ToSend(t, ReplicateResult(0, IOError("dump"), Zero))]
             /\ conns' = conns
          \/ \E ok \in FlushOutcomes(c) : \E quiet \in Quiet(ok) :
               /\ conns' = [conns EXCEPT ![c] = Awaiting(c, ok, quiet)]
               /\ tx' = [tx EXCEPT ![t] =
                           [(IF ok THEN [tx[t] EXCEPT !.pc = "awaitContinue"]
                             ELSE ToSend(t, ReplicateResult(0, IOError("flush"), Zero)))
                              EXCEPT !.wire = @ \o <<"WriteHead", FlushEvent(ok)>>]]
    /\ UNCHANGED <<idlePools, idlePoolsMu, chans, client, Result, invalidated>>

\* Lines 110-117: the peer's write head, from the X-Write-Head header.
RemoteWriteHead(s) == IF s # <<>> THEN ParseInt(s).i ELSE Zero

\* A rejection whose result has no error when the response has no body.
RejectResultOfBody(r) ==
    ReplicateResult(0, IF Drained(r) = <<>> THEN NilError
                       ELSE NewError(Drained(r)),
                    RemoteWriteHead(r.writeHead))

\* Lines 124-125: the result of a rejected handshake.
RejectResult(r) ==
    ReplicateResult(0, NewError(Drained(r)), RemoteWriteHead(r.writeHead))

\* A rejection that retains the connection whatever its flush returned.
RetainUnlessClosed(r, flushOk) == ~r.close

\* Line 120: whether a rejected handshake's connection is retained.
RetainAfterReject(r, flushOk) == ~r.close /\ flushOk

\* Line 134: the result of an accepted handshake.
AcceptResult(t) == ReplicateResult(t, NilError, Zero)

ReadEvent(r) ==
    IF ~r.headOk THEN "ReadFailed"
    ELSE IF r.status = StatusContinue THEN "Read100"
    ELSE IF r.status = StatusNoContent THEN "Read204"
    ELSE "ReadOther"

\* Lines 102-135: read the handshake response.  An error of ReadResponse
\* ends the transaction; a status other than 100 is a rejection: drain the
\* body, parse the write head, end the chunked body, flush, and retain the
\* connection if it is still good; a 100 opens the transaction stream.
ReadContinue(t) ==
    /\ tx[t].pc = "awaitContinue"
    /\ \E r \in ReadOutcomes(tx[t].conn, HandshakeOutcomes) :
         LET c == tx[t].conn
         IN IF ~r.headOk
            THEN /\ conns' = [conns EXCEPT ![c].terr = TRUE]
                 /\ chans' = chans
                 /\ tx' = [tx EXCEPT ![t] =
                             [ToSend(t, ReplicateResult(0, IOError("read"), Zero))
                                EXCEPT !.resp = r,
                                       !.wire = Append(@, ReadEvent(r))]]
            ELSE IF r.status = StatusContinue
            THEN /\ conns' = [conns EXCEPT ![c].deadline = FALSE]
                 /\ chans' = chans
                 /\ tx' = [tx EXCEPT ![t] =
                             [ToSend(t, AcceptResult(t))
                                EXCEPT !.resp = r,
                                       !.wire = Append(@, ReadEvent(r))]]
            ELSE \E ok \in FlushOutcomes(c) :
                   LET rec == [AfterFlush(c, ok) EXCEPT
                                 !.terr = @ \/ DrainFailed(r)]
                       keep == RetainAfterReject(r, ok)
                   IN /\ conns' = [conns EXCEPT ![c] =
                                     IF keep THEN PutConnRec(t, c, rec) ELSE rec]
                      /\ chans' = IF keep THEN PutChans(t, c) ELSE chans
                      /\ tx' = [tx EXCEPT ![t] =
                                  [ToSend(t, RejectResult(r))
                                     EXCEPT !.resp = r,
                                            !.put = IF keep THEN PutOutcome(t, c)
                                                    ELSE @,
                                            !.wire = @ \o <<ReadEvent(r), "LastChunk",
                                                            FlushEvent(ok)>>]]
    /\ UNCHANGED <<idlePools, idlePoolsMu, client, Result, invalidated>>

\* A start that, after the send of a transport error, takes a connection
\* again.
AfterSendRetry(r) ==
    IF r.Writer # 0 THEN "streaming"
    ELSE IF r.Error.kind \in {"flush", "read"} THEN "take"
    ELSE "done"

\* The state of start after its send on op.Result: the caller holds the
\* write handle, or the operation has ended.
AfterSend(r) == IF r.Writer # 0 THEN "streaming" ELSE "done"

\* A start whose DumpRequest branch returns without its send.
SentUnlessDump(q, r) == IF r.Error.kind = "dump" THEN q ELSE Append(q, r)

\* What op.Result holds after start's send of r.
Sent(q, r) == Append(q, r)

\* Lines 75, 90, 96, 104, 124, 134: the send on op.Result, received by the
\* caller; start returns.
SendResult(t) ==
    /\ tx[t].pc = "send"
    /\ Result' = [Result EXCEPT ![t] = Sent(@, tx[t].result)]
    /\ tx' = [tx EXCEPT ![t].pc = AfterSend(tx[t].result)]
    /\ UNCHANGED <<idlePools, idlePoolsMu, chans, client, conns, invalidated>>

(* ---------------------------- Write, Commit ---------------------------- *)

\* Lines 167-169: the chunked writer frames p as one chunk into the buffered
\* writer; an empty p writes nothing.  The buffered writer may pass bytes
\* on to the network, which may fail; its error then stays.
\* count is the counter of the transaction that the call is counted in.
WriteOn(t, count) ==
    LET c == tx[t].conn
    IN \/ \* len(p) = 0
          /\ conns' = conns
          /\ tx' = [tx EXCEPT ![t][count] = @ + 1, ![t].writeErr = FALSE]
       \/ \E ok \in FlushOutcomes(c) :
            /\ conns' = [conns EXCEPT ![c] = AfterFlush(c, ok)]
            /\ tx' = [tx EXCEPT
                        ![t][count] = @ + 1,
                        ![t].writeErr = ~ok,
                        ![t].wire = IF conns[c].werr THEN @
                                    ELSE Append(@, IF ok THEN "Chunk"
                                                   ELSE "ChunkFailed")]

\* A call of Write on a write handle that start has delivered, before any
\* call of Commit.
Write(t) ==
    /\ tx[t].pc = "streaming"
    /\ tx[t].writes < MaxWrites
    /\ WriteOn(t, "writes")
    /\ UNCHANGED <<idlePools, idlePoolsMu, chans, client, Result, invalidated>>

\* A call of Write after Commit has returned: Write (lines 167-169) has no
\* guard, and the chunked writer no state that its Close changes.
WriteAfterCommit(t) ==
    /\ tx[t].pc = "returned"
    /\ tx[t].lateWrites < MaxLateWrites
    /\ WriteOn(t, "lateWrites")
    /\ UNCHANGED <<idlePools, idlePoolsMu, chans, client, Result, invalidated>>

\* A Commit that writes the trailer before it closes the chunker.
CommitWritesTrailerFirst(c) ==
    IF conns[c].werr THEN <<>> ELSE <<"Trailer", "LastChunk">>

\* What Commit writes before its flush (lines 173-174): the chunked
\* writer's last chunk, then the X-Commit-Delta trailer.  A buffered writer
\* holding an error takes nothing.
CommitWrites(c) == IF conns[c].werr THEN <<>> ELSE <<"LastChunk", "Trailer">>

\* Lines 173-181: close the chunker, write the trailer, flush; on success
\* set the read deadline for the commit response.
CommitOn(t) ==
    LET c == tx[t].conn
    IN \E ok \in FlushOutcomes(c) : \E quiet \in Quiet(ok) :
         /\ conns' = [conns EXCEPT ![c] = Awaiting(c, ok, quiet)]
         /\ tx' = [tx EXCEPT
                     ![t].pc = IF ok THEN "commitWait" ELSE "returned",
                     ![t].commits = @ + 1,
                     ![t].commitErr = IF ok THEN NilError ELSE IOError("flush"),
                     ![t].wire = @ \o CommitWrites(c) \o <<FlushEvent(ok)>>]

\* The first call of Commit on a write handle, up to its wait for the
\* response.
CommitFlush(t) ==
    /\ tx[t].pc = "streaming"
    /\ CommitOn(t)
    /\ UNCHANGED <<idlePools, idlePoolsMu, chans, client, Result, invalidated>>

\* A call of Commit after Commit has returned: Commit (lines 171-198) has
\* no guard; it closes the chunker, writes the trailer and flushes again,
\* and goes on to read a response and to putConn as the first call did.
CommitAgain(t) ==
    /\ tx[t].pc = "returned"
    /\ tx[t].commits < MaxCommits
    /\ CommitOn(t)
    /\ UNCHANGED <<idlePools, idlePoolsMu, chans, client, Result, invalidated>>

\* Lines 187-193: the error Commit returns for a response that was read.
CommitError(r) ==
    IF r.status # StatusNoContent THEN NewError(Drained(r)) ELSE NilError

\* A Commit that retains the connection only when the peer closes it.
RetainWhenClosed(r) == r.close

\* Line 194: whether the connection is retained after the commit response.
RetainAfterCommit(r) == ~r.close

\* Lines 182-198: read the commit response, drain its body, retain the
\* connection unless the peer closes it, and return.
CommitRead(t) ==
    /\ tx[t].pc = "commitWait"
    /\ \E r \in ReadOutcomes(tx[t].conn, CommitOutcomes) :
         LET c == tx[t].conn
         IN IF ~r.headOk
            THEN /\ conns' = [conns EXCEPT ![c].terr = TRUE]
                 /\ chans' = chans
                 /\ tx' = [tx EXCEPT ![t].pc = "returned",
                                     ![t].resp = r,
                                     ![t].commitErr = IOError("read"),
                                     ![t].wire = Append(@, ReadEvent(r))]
            ELSE LET rec == [conns[c] EXCEPT !.terr = @ \/ DrainFailed(r)]
                     keep == RetainAfterCommit(r)
                 IN /\ conns' = [conns EXCEPT ![c] =
                                   IF keep THEN PutConnRec(t, c, rec) ELSE rec]
                    /\ chans' = IF keep THEN PutChans(t, c) ELSE chans
                    /\ tx' = [tx EXCEPT ![t].pc = "returned",
                                        ![t].resp = r,
                                        ![t].commitErr = CommitError(r),
                                        ![t].put = IF keep THEN PutOutcome(t, c)
                                                   ELSE @,
                                        ![t].wire = Append(@, ReadEvent(r))]
    /\ UNCHANGED <<idlePools, idlePoolsMu, client, Result, invalidated>>

(* ---------------------------- specification ---------------------------- *)

\* The operations on clients that NewReplicateClient has returned.
Next ==
    \/ \E t \in TxIds, k \in ClientIds : Replicate(t, k)
    \/ \E t \in TxIds : TakeFromPool(t)
    \/ \E t \in TxIds : TakeDial(t)
    \/ \E t \in TxIds : SendRequest(t)
    \/ \E t \in TxIds : ReadContinue(t)
    \/ \E t \in TxIds : SendResult(t)
    \/ \E t \in TxIds : Write(t)
    \/ \E t \in TxIds : CommitFlush(t)
    \/ \E t \in TxIds : CommitRead(t)

Spec == Init /\ [][Next]_vars

\* The same with the calls of NewReplicateClient, from the start of the
\* process.
RegistryNext ==
    \/ \E k \in ClientIds : NewClientLock(k)
    \/ \E k \in ClientIds : NewClientMake(k)
    \/ \E k \in ClientIds : NewClientUnlock(k)
    \/ Next

SpecRegistry == RegistryInit /\ [][RegistryNext]_vars

\* The goroutines make progress: a ReadResponse that can return does, by an
\* answer, a failure of the connection or the read deadline; start's send
\* on op.Result is received; a Commit that was called goes on to its read.
Fairness ==
    \A t \in TxIds :
        /\ WF_vars(ReadContinue(t))
        /\ WF_vars(SendResult(t))
        /\ WF_vars(CommitRead(t))

SpecLive == Init /\ [][Next]_vars /\ Fairness

\* The same as Next with callers that go on to use a write handle after its
\* Commit has returned.
MisuseNext ==
    \/ Next
    \/ \E t \in LateTxIds : WriteAfterCommit(t)
    \/ \E t \in LateTxIds : CommitAgain(t)

\* From clients that no operation has used yet.
SpecMisuse == ColdInit /\ [][MisuseNext]_vars

(* ------------------------------- claims -------------------------------- *)

Range(q) == {q[i] : i \in 1..Len(q)}
Last(q) == q[Len(q)]

\* The transaction holds its connection: taken and not yet given up.
Holding(t) ==
    \/ tx[t].pc \in {"request", "awaitContinue", "streaming", "commitWait"}
    \/ tx[t].pc = "send" /\ tx[t].result.Writer # 0

\* start has returned.
Started(t) == tx[t].pc \in {"streaming", "commitWait", "returned", "done"}

\* C1: along every path of start exactly one ReplicateResult is sent on
\* op.Result: none before start's send, one once start has returned, never
\* two.
C1_ExactlyOneResult ==
    \A t \in TxIds :
        /\ Len(Result[t]) <= 1
        /\ Started(t) => Len(Result[t]) = 1
        /\ ~Started(t) => Len(Result[t]) = 0
        /\ Len(Result[t]) = 1 => Result[t][1] = tx[t].result

\* Two operations have ended on different paths of start, each with its one
\* result: one on a failed DumpRequest, one with the write handle.
C1_Witness ==
    \E t, u \in TxIds :
        /\ tx[t].pc = "done" /\ tx[t].result.Error.kind = "dump"
        /\ Len(Result[t]) = 1
        /\ tx[u].pc = "streaming" /\ Len(Result[u]) = 1
        /\ Result[u][1].Writer = u

\* C2: a connection that a transaction holds is held by no other
\* transaction and is in no idle pool.
C2_ExclusiveOwnership ==
    \A t \in TxIds :
        Holding(t) =>
            /\ \A u \in TxIds \ {t} : Holding(u) => tx[u].conn # tx[t].conn
            /\ \A p \in 1..Len(chans) : tx[t].conn \notin Range(chans[p])

\* Two transactions hold connections at once, one of them a connection it
\* took from the pool.
C2_Witness ==
    \E t, u \in TxIds :
        /\ t # u /\ Holding(t) /\ Holding(u)
        /\ tx[t].fromPool
        /\ PoolOf(t) = PoolOf(u)

\* The step of a putConn on a full pool: it leaves every pool unchanged
\* while its caller goes on as the response tells: start to its send,
\* Commit to its return, without an error for a 204.
C3_PutOnFull ==
    \A t \in TxIds :
        (tx[t].put = "none" /\ tx'[t].put = "dropped") =>
            /\ Len(chans[PoolOf(t)]) = ReplicateClientIdlePoolSize
            /\ chans' = chans
            /\ tx'[t].pc \in {"send", "returned"}
            /\ (tx'[t].pc = "returned" /\ tx'[t].resp.status = StatusNoContent)
                   => tx'[t].commitErr = NilError

\* C3: a pool never holds more than ReplicateClientIdlePoolSize
\* connections, and a putConn on a full pool leaves the pools unchanged,
\* does not block and reports no error.
C3_PoolBound ==
    /\ [](\A p \in 1..Len(chans) : Len(chans[p]) <= ReplicateClientIdlePoolSize)
    /\ [][C3_PutOnFull]_vars

\* A putConn has met a full pool, which is still full.
C3_Witness ==
    \E t \in TxIds :
        /\ tx[t].put = "dropped"
        /\ tx[t].pc = "returned"
        /\ tx[t].commitErr = NilError
        /\ Len(chans[PoolOf(t)]) = ReplicateClientIdlePoolSize

\* The client of call k has its pool.
HasPool(k) == client[k].pc \in {"unlock", "ready"}

\* C4: clients for the same BaseURL have the same pool and clients for
\* different BaseURLs different pools; one pool at most is ever made per
\* BaseURL; and a connection is only ever held through, or idle in the pool
\* of, a client of the BaseURL it was dialed for.
C4_PoolKeying ==
    /\ \A k1, k2 \in ClientIds :
           (HasPool(k1) /\ HasPool(k2)) =>
               ((BaseURL(k1) = BaseURL(k2)) <=>
                    (client[k1].idlePool = client[k2].idlePool))
    /\ Len(chans) = Cardinality({u \in BaseURLs : idlePools[u] # NoPool})
    /\ \A t \in TxIds :
           Holding(t) => conns[tx[t].conn].host = BaseURL(tx[t].client)
    /\ \A p \in 1..Len(chans) : \A c \in Range(chans[p]) :
           idlePools[conns[c].host] = p

\* A transaction of one client holds a connection that a transaction of
\* another client released, while a client for another BaseURL has another
\* pool.
C4_Witness ==
    \E t \in TxIds, k \in ClientIds :
        /\ Holding(t)
        /\ conns[tx[t].conn].putBy \notin {NoClient, tx[t].client}
        /\ client[k].pc = "ready"
        /\ client[k].idlePool # PoolOf(t)

ReadEvents == {"Read100", "Read204", "ReadOther", "ReadFailed"}

\* C5: in a transaction's wire events every read of a response directly
\* follows a successful flush, the first of them the flush of the request
\* head; a chunk is written, and the write handle exists, only after a 100
\* has been read; the trailer directly follows the last chunk; and a read
\* after the 100, the final response's, directly follows the flush of the
\* trailer.
C5_WireOrder ==
    \A t \in TxIds :
        LET w == tx[t].wire
        IN /\ \A i \in 1..Len(w) :
                  /\ w[i] \in ReadEvents =>
                         /\ i > 2 /\ w[i - 1] = "Flush"
                         /\ w[1] = "WriteHead" /\ w[2] = "Flush"
                  /\ w[i] \in {"Chunk", "ChunkFailed"} =>
                         \E j \in 1..(i - 1) : w[j] = "Read100"
                  /\ w[i] = "Trailer" => i > 1 /\ w[i - 1] = "LastChunk"
                  /\ (w[i] \in ReadEvents /\ \E j \in 1..(i - 1) : w[j] = "Read100")
                         => w[i - 2] = "Trailer"
           /\ (tx[t].result.Writer # 0 \/ tx[t].writes > 0)
                  => "Read100" \in Range(w)

\* A transaction has gone through all of it: head, 100, a chunk, the last
\* chunk, the trailer, the final response.
C5_Witness ==
    \E t \in TxIds :
        tx[t].wire = <<"WriteHead", "Flush", "Read100", "Chunk", "LastChunk",
                       "Trailer", "Flush", "Read204">>

\* C6: no connection in an idle pool has had a transport error: a failed
\* flush, a failed read of a response head, or a failed drain of a body.
C6_NoPoolAfterTransportError ==
    \A p \in 1..Len(chans) : \A c \in Range(chans[p]) : ~conns[c].terr

\* C7: the result of a rejected handshake carries the X-Write-Head value
\* when the header parses as a base-16 int64 ("2a" gives 42) and zero when
\* the header is absent or does not parse; it is delivered either way.
C7_WriteHeadRoundTrip ==
    \A t \in TxIds :
        (tx[t].pc \in {"send", "done"} /\ tx[t].resp.headOk
           /\ tx[t].resp.status # StatusContinue) =>
            LET h == tx[t].resp.writeHead
                r == tx[t].result
            IN /\ r.Error.kind = "errorString"
               /\ (h # <<>> /\ ParseInt(h).err = "nil")
                      => r.ErrorWriteHead = ParseInt(h).i
               /\ h = <<"2", "a">>
                      => r.ErrorWriteHead = [neg |-> FALSE, mag |-> <<2, 10>>]
               /\ (h = <<>> \/ ParseInt(h).err # "nil")
                      => r.ErrorWriteHead = Zero

\* Commit returns in this step.
CommitReturns(t) == tx[t].pc = "commitWait" /\ tx'[t].pc = "returned"

\* The final response was a 204 without a connection-close signal.
Accepted(r) == r.headOk /\ r.status = StatusNoContent /\ ~r.close

\* C8, as stated: when Commit returns on a 204 without a connection-close
\* signal, it returns no error and the connection is in the idle pool.
C8_Original ==
    [][\A t \in TxIds :
          (CommitReturns(t) /\ Accepted(tx'[t].resp)) =>
              /\ tx'[t].commitErr = NilError
              /\ tx[t].conn \in Range(chans'[PoolOf(t)])]_vars

\* C8, amended: when Commit returns on a 204 without a connection-close
\* signal, it returns no error and the connection is in the idle pool,
\* unless the pool was full: then the pool is unchanged.
C8_CommitPools ==
    [][\A t \in TxIds :
          (CommitReturns(t) /\ Accepted(tx'[t].resp)) =>
              /\ tx'[t].commitErr = NilError
              /\ IF Len(chans[PoolOf(t)]) < ReplicateClientIdlePoolSize
                 THEN chans'[PoolOf(t)] = Append(chans[PoolOf(t)], tx[t].conn)
                 ELSE chans' = chans]_vars

\* Commit has returned nil on a 204 and its connection is the pool's last.
C8_Witness ==
    \E t \in TxIds :
        /\ tx[t].pc = "returned"
        /\ Accepted(tx[t].resp)
        /\ tx[t].commitErr = NilError
        /\ chans[PoolOf(t)] # <<>>
        /\ Last(chans[PoolOf(t)]) = tx[t].conn

\* Commit has returned after reading the head of the final response.
FinalResponseRead(t) ==
    /\ tx[t].pc = "returned"
    /\ Last(tx[t].wire) \in {"Read204", "ReadOther"}

\* C9: for a final response other than 204 Commit returns an error whose
\* message is the response body, and for a 204 it returns nil.
C9_CommitErrorIsBody ==
    \A t \in TxIds :
        FinalResponseRead(t) =>
            IF tx[t].resp.status # StatusNoContent
            THEN /\ tx[t].commitErr.kind = "errorString"
                 /\ tx[t].commitErr.msg = tx[t].resp.body
            ELSE tx[t].commitErr = NilError

\* The transactions of a client whose dial failed.
DialFailures(e) == {t \in TxIds : tx[t].client = e /\ tx[t].take = "dial"}

\* The transactions of a client whose takeConn failed.
AcquireFailures(e) == {t \in TxIds : tx[t].client = e /\ tx[t].take # "ok"}

\* C10: the step in which a dial fails calls InvalidateResolution on the
\* endpoint once, leaves the error to be sent on op.Result, makes no
\* connection and changes no pool; an endpoint never counts fewer
\* invalidations than failed dials, nor more than failed acquisitions.
C10_DialFailure ==
    /\ [](\A e \in Endpoints :
            /\ invalidated[e] >= Cardinality(DialFailures(e))
            /\ invalidated[e] <= Cardinality(AcquireFailures(e)))
    /\ [][\A t \in TxIds :
            (tx[t].take # "dial" /\ tx'[t].take = "dial") =>
                /\ invalidated'[tx[t].client] = invalidated[tx[t].client] + 1
                /\ tx'[t].pc = "send" /\ Result'[t] = <<>>
                /\ tx'[t].result.Error.kind = "dial"
                /\ tx'[t].conn = NoConn
                /\ chans' = chans /\ conns' = conns]_vars

\* A dial has failed: the resolution is invalidated once and the error is
\* still to be sent.
C10_Witness ==
    \E t \in TxIds :
        /\ tx[t].take = "dial"
        /\ tx[t].pc = "send"
        /\ Result[t] = <<>>
        /\ invalidated[tx[t].client] = 1

\* takeConn fails in this step of transaction t.
AcquireFails(t) == tx[t].take = "ok" /\ tx'[t].take # "ok"

\* C11, as stated: a takeConn that fails, on ResolveURL or on the dial,
\* calls InvalidateResolution on the endpoint before its error is sent.
C11_Original ==
    [][\A t \in TxIds :
          AcquireFails(t) =>
              /\ invalidated'[tx[t].client] = invalidated[tx[t].client] + 1
              /\ tx'[t].pc = "send" /\ Result'[t] = <<>>]_vars

\* C11, amended: a takeConn that fails leaves its error to be sent on
\* op.Result; it has called InvalidateResolution on the endpoint, once,
\* when the dial failed, and not at all when ResolveURL failed.
C11_AcquireFailure ==
    [][\A t \in TxIds :
          AcquireFails(t) =>
              /\ tx'[t].pc = "send" /\ Result'[t] = <<>>
              /\ tx'[t].result.Writer = 0
              /\ tx'[t].result.Error = IOError(tx'[t].take)
              /\ tx'[t].conn = NoConn
              /\ invalidated' = [invalidated EXCEPT ![tx[t].client] =
                                   IF tx'[t].take = "dial" THEN @ + 1 ELSE @]]_vars

\* ResolveURL has failed: its error is the operation's result and the
\* endpoint's resolution was not invalidated.
C11_Witness ==
    \E t \in TxIds :
        /\ tx[t].take = "resolve"
        /\ tx[t].pc = "done"
        /\ Result[t] = <<ReplicateResult(0, IOError("resolve"), Zero)>>
        /\ invalidated[tx[t].client] = 0

\* The write handle of t is delivered, or about to be, and Commit has not
\* been called.
Streaming(t) ==
    \/ tx[t].pc = "streaming"
    \/ tx[t].pc = "send" /\ tx[t].result.Writer # 0

\* Transaction t starts a wait for a response in this step: for the
\* handshake's, or for the commit's.
StartsWait(t) ==
    \/ tx[t].pc = "request" /\ tx'[t].pc = "awaitContinue"
    \/ tx[t].pc = "streaming" /\ tx'[t].pc = "commitWait"

\* C12: no connection in an idle pool and no connection of a transaction
\* that is streaming has a read deadline; and a read deadline is only ever
\* set on a connection by the transaction that holds it, as it starts to
\* wait for the handshake response or for the commit response.
C12_DeadlineOnlyWhileWaiting ==
    /\ [](\A p \in 1..Len(chans) : \A c \in Range(chans[p]) :
             ~conns[c].deadline)
    /\ [](\A t \in TxIds : Streaming(t) => ~conns[tx[t].conn].deadline)
    /\ [][\A c \in 1..Len(conns) :
             (~conns[c].deadline /\ conns'[c].deadline) =>
                 \E t \in TxIds : tx[t].conn = c /\ StartsWait(t)]_vars

\* A connection that has waited with a deadline for both responses is in
\* the pool, while another transaction streams on a connection that it
\* took from the pool and that waited with a deadline for the handshake.
C12_Witness ==
    \E t, u \in TxIds :
        /\ tx[t].pc = "returned" /\ tx[t].put = "pooled"
        /\ "Read100" \in Range(tx[t].wire)
        /\ tx[t].conn \in Range(chans[PoolOf(t)])
        /\ ~conns[tx[t].conn].deadline
        /\ tx[u].pc = "streaming" /\ tx[u].fromPool
        /\ ~conns[tx[u].conn].deadline

\* The response that t read is a rejection of its handshake.
Rejection(r) == r.headOk /\ r.status # StatusContinue

\* start reads a rejection of t's handshake in this step.
Rejects(t) ==
    /\ tx[t].pc = "awaitContinue" /\ tx'[t].pc = "send"
    /\ Rejection(tx'[t].resp)

\* The rejection that t read has been answered with a flush that succeeded,
\* and carried no connection-close signal.
RejectionRetains(t) == Last(tx'[t].wire) = "Flush" /\ ~tx'[t].resp.close

\* C13, as stated: on a rejection the transaction writes the last chunk and
\* flushes, and the connection is in the idle pool after it exactly when
\* the flush succeeded and the response carried no connection-close
\* signal; the error result is delivered either way.
C13_Original ==
    /\ [][\A t \in TxIds :
             Rejects(t) =>
                 /\ \E f \in {"Flush", "FlushFailed"} :
                        tx'[t].wire = tx[t].wire \o
                            <<ReadEvent(tx'[t].resp), "LastChunk", f>>
                 /\ (tx[t].conn \in Range(chans'[PoolOf(t)]))
                        <=> RejectionRetains(t)]_vars
    /\ [](\A t \in TxIds :
             (tx[t].pc = "done" /\ Rejection(tx[t].resp)) =>
                 /\ Result[t] = <<tx[t].result>>
                 /\ tx[t].result.Error.kind = "errorString")

\* C13, amended: on a rejection the transaction writes the last chunk and
\* flushes, and calls putConn exactly when the flush succeeded and the
\* response carried no connection-close signal: the connection is then
\* appended to the idle pool, unless the pool was full, and no pool changes
\* otherwise; the error result is delivered either way.
C13_RejectionPools ==
    /\ [][\A t \in TxIds :
             Rejects(t) =>
                 /\ \E f \in {"Flush", "FlushFailed"} :
                        tx'[t].wire = tx[t].wire \o
                            <<ReadEvent(tx'[t].resp), "LastChunk", f>>
                 /\ (tx'[t].put # "none") <=> RejectionRetains(t)
                 /\ IF /\ RejectionRetains(t)
                       /\ Len(chans[PoolOf(t)]) < ReplicateClientIdlePoolSize
                    THEN chans' = [chans EXCEPT ![PoolOf(t)] =
                                     Append(@, tx[t].conn)]
                    ELSE chans' = chans
                 /\ tx'[t].result.Writer = 0
                 /\ tx'[t].result.Error.kind = "errorString"
                 /\ Result'[t] = <<>>]_vars
    /\ [](\A t \in TxIds :
             (tx[t].pc = "done" /\ Rejection(tx[t].resp)) =>
                 /\ Result[t] = <<tx[t].result>>
                 /\ tx[t].result.Writer = 0
                 /\ tx[t].result.Error.kind = "errorString")

\* Two rejections are delivered: one that left its connection in the pool,
\* one whose flush failed and whose connection is in no pool.
C13_Witness ==
    \E t, u \in TxIds :
        /\ tx[t].pc = "done" /\ Rejection(tx[t].resp)
        /\ Last(tx[t].wire) = "Flush" /\ tx[t].put = "pooled"
        /\ tx[t].conn \in Range(chans[PoolOf(t)])
        /\ Len(Result[t]) = 1
        /\ tx[u].pc = "done" /\ Rejection(tx[u].resp)
        /\ Last(tx[u].wire) = "FlushFailed" /\ tx[u].put = "none"
        /\ tx[u].conn \notin Range(chans[PoolOf(u)])
        /\ Len(Result[u]) = 1

\* Connection c is in an idle pool.
Pooled(c) == \E p \in 1..Len(chans) : c \in Range(chans[p])

\* A transaction gave connection c up: c was dialed, no transaction holds
\* it, and it is in no pool.
GivenUp(c) == ~Pooled(c) /\ \A t \in TxIds : Holding(t) => tx[t].conn # c

\* C14: a connection that a transaction gave up, dropped by putConn on a
\* full pool or not released after a transport error or a connection-close
\* signal, has its transport closed.
C14_GivenUpIsClosed ==
    \A c \in 1..Len(conns) : GivenUp(c) => ~conns[c].open

\* C15: a transaction that has flushed its handshake request and waits for
\* the response delivers its result, and a Commit that has flushed the
\* trailer and waits for the final response returns.
C15_WaitsEnd ==
    \A t \in TxIds :
        /\ (tx[t].pc = "awaitContinue") ~> (Len(Result[t]) = 1)
        /\ (tx[t].pc = "commitWait") ~> (tx[t].pc = "returned")

\* Two waits on a silent peer were ended by the read deadline: one for the
\* handshake response, whose error is delivered, and one for the commit
\* response, whose error Commit returned.
C15_Witness ==
    \E t, u \in TxIds :
        /\ tx[t].pc = "done" /\ tx[t].conn # NoConn
        /\ conns[tx[t].conn].silent
        /\ Result[t] = <<ReplicateResult(0, IOError("read"), Zero)>>
        /\ tx[u].pc = "returned" /\ conns[tx[u].conn].silent
        /\ tx[u].commitErr = IOError("read")

\* A call on t's write handle, made after its Commit had returned, takes a
\* step.
LateCall(t) == tx[t].pc = "returned" /\ tx'[t] # tx[t]

\* C16: a Write after Commit, or a second Commit, returns an error at
\* once, writes nothing to the connection and changes no pool.
C16_MisuseFailsFast ==
    [][\A t \in TxIds :
          LateCall(t) =>
              /\ tx'[t].pc = "returned"
              /\ tx'[t].writeErr \/ tx'[t].commitErr # NilError
              /\ tx'[t].wire = tx[t].wire
              /\ conns' = conns
              /\ chans' = chans]_vars

\* C17: a transaction's connection changes only in the one step of its
\* takeConn, from none to the pool's first connection when the pool holds
\* one, and to a newly dialed connection only when the pool is empty;
\* takeConn is only entered from Replicate, so a failure on a connection,
\* pooled or dialed, is followed by no second take and no dial.
C17_AcquiresOnce ==
    /\ [][\A t \in TxIds :
             /\ (tx'[t].conn # tx[t].conn) =>
                    /\ tx[t].pc = "take" /\ tx[t].conn = NoConn
                    /\ IF chans[PoolOf(t)] # <<>>
                       THEN /\ tx'[t].conn = Head(chans[PoolOf(t)])
                            /\ conns' = conns
                       ELSE /\ tx'[t].conn = Len(conns) + 1
                            /\ Len(conns') = Len(conns) + 1
                            /\ chans' = chans
             /\ (tx'[t].pc = "take" /\ tx[t].pc # "take") => tx[t].pc = "new"
             /\ tx[t].pc = "take" => tx'[t].pc \in {"take", "request", "send"}]_vars
    /\ [][Len(conns') # Len(conns) =>
             \E t \in TxIds :
                 /\ tx[t].pc = "take" /\ chans[PoolOf(t)] = <<>>
                 /\ tx'[t].conn = Len(conns')]_vars

\* An operation has ended with the error of a read on the connection that
\* it took from the pool; that connection is the only one ever dialed.
C17_Witness ==
    \E t \in TxIds :
        /\ tx[t].fromPool
        /\ tx[t].pc = "done"
        /\ Result[t] = <<ReplicateResult(0, IOError("read"), Zero)>>
        /\ conns[tx[t].conn].putBy # NoClient
        /\ Len(conns) = 1

\* The caller of t has the write handle and a call of Write on it writes
\* to t's connection: Write (lines 167-169) has no guard, before Commit or
\* after it.
Writable(t) ==
    /\ tx[t].result.Writer # 0
    /\ tx[t].pc \in {"streaming", "returned"}

\* C18: a connection is in at most one slot of an idle pool, and no
\* connection in an idle pool is the connection of a write handle that can
\* still write to it, whatever calls of Write and Commit were made on the
\* write handles, a second Commit included.
C18_PooledOnceAndUnwritable ==
    /\ \A p \in 1..Len(chans) : \A i, j \in 1..Len(chans[p]) :
           i # j => chans[p][i] # chans[p][j]
    /\ \A t \in TxIds : Writable(t) => ~Pooled(tx[t].conn)

\* A Write on t's write handle failed on the connection.
WriteFailed(t) == "ChunkFailed" \in Range(tx[t].wire)

\* C19: after a Write that failed on the connection the transaction never
\* waits for a final response; its Commit returns the error of its flush,
\* having written nothing more, and the connection is in no pool.
C19_CommitAfterFailedWrite ==
    \A t \in TxIds :
        WriteFailed(t) =>
            /\ tx[t].pc \in {"streaming", "returned"}
            /\ conns[tx[t].conn].werr
            /\ ~Pooled(tx[t].conn)
            /\ tx[t].put = "none"
            /\ tx[t].pc = "returned" =>
                   /\ tx[t].commitErr = IOError("flush")
                   /\ Last(tx[t].wire) = "FlushFailed"
                   /\ "Trailer" \notin Range(tx[t].wire)

\* Commit has returned the error of its flush after a Write that failed.
C19_Witness ==
    \E t \in TxIds :
        /\ WriteFailed(t) /\ tx[t].writeErr
        /\ tx[t].pc = "returned"
        /\ tx[t].commitErr = IOError("flush")
        /\ ~Pooled(tx[t].conn)

\* C20: a delivered result has either the write handle, with a nil error
\* and a zero write head, or an error that is not nil and no write handle;
\* its write head is other than zero only when it is the result of a
\* rejected handshake.
C20_ResultShape ==
    \A t \in TxIds : \A i \in 1..Len(Result[t]) :
        LET r == Result[t][i]
        IN /\ (r.Writer # 0) <=> (r.Error = NilError)
           /\ r.Writer # 0 => r.Writer = t /\ r.ErrorWriteHead = Zero
           /\ r.ErrorWriteHead # Zero =>
                  /\ Rejection(tx[t].resp)
                  /\ r.Error.kind = "errorString"

\* Two results are delivered: a write handle, and the error of a rejection
\* without a body together with the peer's write head, 42.
C20_Witness ==
    \E t, u \in TxIds :
        /\ Result[t] = <<ReplicateResult(t, NilError, Zero)>>
        /\ Len(Result[u]) = 1
        /\ Result[u][1].Writer = 0
        /\ Result[u][1].Error = NewError(<<>>)
        /\ Result[u][1].ErrorWriteHead = [neg |-> FALSE, mag |-> <<2, 10>>]

=============================================================================
